---------------------------- MODULE Spec2Model ----------------------------
(***************************************************************************)
(* The selection-step bookkeeping engine of src/src/processor.py:          *)
(* class step and SelectionProcessor.init_selection / add_selection_step   *)
(* driving a coffea PackedSelection (the Selection Registry).              *)
(*                                                                         *)
(* A boolean mask over the event batch is a sequence of BOOLEAN, one       *)
(* entry per event.  A Python dict is a function together with (where      *)
(* iteration order matters) the sequence of its keys in insertion order.   *)
(* Step objects live in `heap`; `steps` maps a step name to the object it  *)
(* references, as self.steps does.  The step class keeps no reference to   *)
(* the parent it was built from; the model keeps it (field `parent` of a   *)
(* heap object, and `made`) to state the lineage properties.               *)
(*                                                                         *)
(* An exception raised by an engine call is not caught inside process():   *)
(* it ends the run (run_processor.main records FAILED and re-raises), so   *)
(* no engine call follows a failed one.                                    *)
(***************************************************************************)
EXTENDS Integers, Sequences, FiniteSets, TLC

\* ------------------------------------------------------------- bounds
\* size of a run: the number of events of the batch plus the number of
\* engine calls (init_selection, add_selection_step) made on it
MaxSize == 4

\* longest trigger-path list (self.mappings['HLTPaths']) of a run
MaxPaths == 3

\* largest number of trigger groups configured in cfg["HLT"]
MaxGroups == 2

\* ------------------------------------------------------------- inputs
\* labels passed as step_label; "init" is the label of the root step and
\* "ee" is also the name of a channel
StepLabels == {"A", "B", "init", "ee"}

\* names passed as step_name to make_snapshot
StepNames == {"step1", "step2"}

\* names passed as parent; "doesnotexist" is never a step label
ParentNames == StepLabels \cup {"init", "doesnotexist"}

\* Python's None, passed as parent
None == "<None>"

Range(s) == {s[i] : i \in 1..Len(s)}

\* the channel dicts a Selector may define: their keys, in insertion order
ChannelConfigs == {<<"ee">>, <<"mumu">>, <<"ee", "mumu">>}

\* ------------------------------------------------------------- state
VARIABLES
    nevents,    \* len(events): the length of the batch given to process()
    channels,   \* self.channels: keys in insertion order
    chanMask,   \* self.channels: channel name -> mask
    selector,   \* self.selector: registered key -> mask
    heap,       \* the step objects created so far, in creation order
    steps,      \* self.steps: step name -> index of its object in heap
    made,       \* for each heap object, the arguments it was created from
    call,       \* the last engine call and its arguments
    result,     \* how the last engine call ended
    ncalls,     \* engine calls made so far
    minitree,   \* self.minitree: channel -> output tag -> projected table
    events,     \* the event records of the batch, as far as a Selector reads them
    cfg,        \* the configuration of the run: the Selector loaded, isSignal
    mappings,   \* self.mappings: the arrays of the file's Mapping tree
    status,     \* the lines written to tree_cfg["status_file"]
    files,      \* the output files written: channel -> branch -> table
    phase,      \* the position of run_processor.main
    histograms, \* self.histograms: channel -> name -> histogram
    pc          \* the number of engine calls of Selector.event_selection made

vars == <<nevents, channels, chanMask, selector, heap, steps, made,
          call, result, ncalls, minitree, events, cfg, mappings,
          status, files, phase, histograms, pc>>

\* what the calls that build steps and snapshots leave alone
run == <<nevents, events, cfg, mappings, status, files, phase, histograms>>

\* the boolean arrays over the batch
Masks == [1..nevents -> BOOLEAN]

\* a channel_wise mask argument: a dict from some channel names to masks
ChannelMaskDicts == UNION {[d -> Masks] : d \in SUBSET Range(channels)}

\* the empty dict
EmptyDict == [k \in {} |-> 0]

\* d[k] = v for a dict d
Put(d, k, v) == [x \in DOMAIN d \cup {k} |-> IF x = k THEN v ELSE d[x]]

\* ------------------------------------------------------- the registry
\* PackedSelection.add(name, selection) refuses a name already present
RegistryHas(sel, key) == key \in DOMAIN sel

\* PackedSelection.add(name, selection) of a new name
RegistryAdd(sel, key, mask) == Put(sel, key, mask)

\* elementwise AND of two masks
MaskAnd(a, b) == [i \in 1..nevents |-> a[i] /\ b[i]]

\* PackedSelection.all(*names): the AND of the masks registered under names
RECURSIVE RegistryAll(_, _)
RegistryAll(sel, names) ==
    IF names = <<>> THEN [i \in 1..nevents |-> TRUE]
    ELSE MaskAnd(sel[Head(names)], RegistryAll(sel, Tail(names)))

\* ---------------------------------------------------------- class step
\* f"{chan}_{step_label}"
CompositeKey(chan, step_label) == chan \o "_" \o step_label

\* faulty variant of AppendLabels: the step's own label is put in front of the
\* copied lineage
PrependLabels(own, extra) == extra \o own

\* faulty variant of AppendLabels: `=` for `+=`, the copied lineage is dropped
ReplaceLabels(own, extra) == extra

\* self.mask_labels[chan] += mask_label[chan]
AppendLabels(own, extra) == own \o extra

\* faulty variant of CountSteps: the counter is copied from the parent
KeepCount(parent) == parent.number_of_steps

\* self.number_of_steps = parent.number_of_steps + 1
CountSteps(parent) == parent.number_of_steps + 1

\* step.__init__ with a parent object
ChildStep(name, mask_label, parentId) ==
    LET parent == heap[parentId]
        copied == parent.mask_labels
    IN  [name            |-> name,
         mask_label      |-> mask_label,
         mask_labels     |-> [chan \in DOMAIN copied |->
                                 AppendLabels(copied[chan], mask_label[chan])],
         has_parent      |-> TRUE,
         number_of_steps |-> CountSteps(parent),
         parent          |-> parentId]

\* step.__init__ without a parent
RootStep(name, mask_label) ==
    [name            |-> name,
     mask_label      |-> mask_label,
     mask_labels     |-> mask_label,
     has_parent      |-> FALSE,
     number_of_steps |-> 1,
     parent          |-> 0]

\* faulty variant of DeepCopied: the new step's mask_labels is its parent's
\* dict itself, so that `+=` extends the parent's lists too
SharedWithParent(obj) ==
    IF obj.parent = 0 THEN heap
    ELSE [heap EXCEPT ![obj.parent].mask_labels = obj.mask_labels]

\* copy.deepcopy(parent.mask_labels): the step objects created before obj,
\* as the creation of obj leaves them
DeepCopied(obj) == heap

\* self.steps[name] = <new object obj>, created from the arguments args
StoreStep(name, obj, args) ==
    /\ heap' = Append(DeepCopied(obj), obj)
    /\ made' = Append(made, args)
    /\ steps' = Put(steps, name, Len(heap) + 1)

\* the step object stored under a name
Node(name) == heap[steps[name]]

\* make_snapshot's selection for one channel:
\* self.selector.all(*self.steps[step_label].mask_labels[chan])
Survivors(id, chan) == RegistryAll(selector, heap[id].mask_labels[chan])

\* ------------------------------------------------------------ actions
\* the run has not been ended by an exception
Running == result = "ok"

\* the run may make one more engine call
CanCall == Running /\ nevents + ncalls < MaxSize

Init ==
    /\ nevents \in 1..(MaxSize - 1)
    /\ channels = <<>>
    /\ chanMask = EmptyDict
    /\ selector = EmptyDict
    /\ heap = <<>>
    /\ steps = EmptyDict
    /\ made = <<>>
    /\ call = [op |-> "new"]
    /\ result = "ok"
    /\ ncalls = 0
    /\ minitree = EmptyDict
    /\ events = <<>>
    /\ cfg = [selector_script |-> "dilepton", isSignal |-> FALSE]
    /\ mappings = [HLTPaths |-> <<>>]
    /\ status = <<>>
    /\ files = EmptyDict
    /\ histograms = EmptyDict
    /\ phase = "process"
    /\ pc = 0

\* Selector.pre_selection: self.channels = {...}
SetChannels ==
    /\ Running
    /\ channels = <<>>
    /\ steps = EmptyDict
    /\ \E keys \in ChannelConfigs :
        \E m \in [Range(keys) -> Masks] :
            /\ channels' = keys
            /\ chanMask' = m
    /\ UNCHANGED <<run, pc, selector, heap, steps, made, call, result, ncalls,
                   minitree>>

\* faulty variant of AddEach: a channel absent from given is skipped
RECURSIVE AddEachSkipMissing(_, _, _)
AddEachSkipMissing(sel, items, given) ==
    IF items = <<>> THEN [selector |-> sel, error |-> "ok"]
    ELSE LET key  == Head(items)[1]
             chan == Head(items)[2]
         IN  IF chan \notin DOMAIN given
                 THEN AddEachSkipMissing(sel, Tail(items), given)
             ELSE IF RegistryHas(sel, key)
                 THEN [selector |-> sel, error |-> "DuplicateKeyError"]
             ELSE AddEachSkipMissing(RegistryAdd(sel, key, given[chan]),
                                     Tail(items), given)

\* the loop `for chan ...: self.selector.add(key, given[chan])` over the
\* items <<key, chan>>: a channel absent from given ends it with a
\* KeyError, a key already registered with the registry's error
RECURSIVE AddEach(_, _, _)
AddEach(sel, items, given) ==
    IF items = <<>> THEN [selector |-> sel, error |-> "ok"]
    ELSE LET key  == Head(items)[1]
             chan == Head(items)[2]
         IN  IF chan \notin DOMAIN given
                 THEN [selector |-> sel, error |-> "MissingChannelMaskError"]
             ELSE IF RegistryHas(sel, key)
                 THEN [selector |-> sel, error |-> "DuplicateKeyError"]
             ELSE AddEach(RegistryAdd(sel, key, given[chan]), Tail(items), given)

\* faulty variant of NoChannels: the check is missing
ChannelsNeverEmpty == FALSE

\* `if not self.channels`
NoChannels == channels = <<>>

\* faulty variant of ChannelItems: every channel is registered with the mask of
\* the first one
ChannelItemsFirstMask ==
    [i \in 1..Len(channels) |-> <<channels[i], channels[1]>>]

\* `for chan, chan_mask in self.channels.items()`: the key each channel's
\* mask is registered under, and the channel whose mask it is
ChannelItems == [i \in 1..Len(channels) |-> <<channels[i], channels[i]>>]

\* init_selection()
DoInitSelection ==
    /\ ncalls' = ncalls + 1
    /\ call' = [op |-> "init_selection"]
    /\ UNCHANGED <<run, channels, chanMask, minitree>>
    /\ IF NoChannels
       THEN /\ result' = "ConfigurationError"
            /\ UNCHANGED <<selector, heap, steps, made>>
       ELSE LET mask_labels == [chan \in Range(channels) |-> <<chan>>]
                added == AddEach(selector, ChannelItems, chanMask)
            IN  /\ StoreStep("init", RootStep("init", mask_labels),
                             [op |-> "init_selection"])
                /\ selector' = added.selector
                /\ result' = added.error

\* faulty variant of ChannelWiseItems: every channel's key is registered with
\* the mask given for the first channel
ChannelWiseItemsFirstMask(step_label) ==
    [i \in 1..Len(channels) |->
        <<CompositeKey(channels[i], step_label), channels[1]>>]

\* init_selection(), called at any time
InitSelection == CanCall /\ DoInitSelection /\ UNCHANGED pc

\* channel_wise=True: `for chan in self.channels`, the key
\* f"{chan}_{step_label}" and the channel whose mask[chan] is registered
ChannelWiseItems(step_label) ==
    [i \in 1..Len(channels) |->
        <<CompositeKey(channels[i], step_label), channels[i]>>]

\* faulty variant of ChannelWiseLabels: every channel gets the composite
\* label of the first channel
ChannelWiseLabelsOfFirst(step_label) ==
    [chan \in Range(channels) |-> <<CompositeKey(channels[1], step_label)>>]

\* channel_wise=True: mask_labels[chan] = [f"{chan}_{step_label}"]
ChannelWiseLabels(step_label) ==
    [chan \in Range(channels) |-> <<CompositeKey(chan, step_label)>>]

\* channel_wise=False: mask_labels = {chan: [step_label] ...}
SharedLabels(step_label) ==
    [chan \in Range(channels) |-> <<step_label>>]

\* faulty variant of SharedKey: the mask is registered under a decorated key
SharedKeyPrefixed(step_label) == "step_" \o step_label

\* channel_wise=False: the key of self.selector.add(step_label, mask)
SharedKey(step_label) == step_label

\* the masks are registered and the new step's own labels are built,
\* before the parent is looked up
RegisterStepMasks(step_label, mask, channel_wise) ==
    IF channel_wise
    THEN LET added == AddEach(selector, ChannelWiseItems(step_label), mask)
         IN  [selector    |-> added.selector,
              error       |-> added.error,
              mask_labels |-> ChannelWiseLabels(step_label)]
    ELSE LET key == SharedKey(step_label)
         IN  [selector    |-> IF RegistryHas(selector, key) THEN selector
                              ELSE RegistryAdd(selector, key, mask),
              error       |-> IF RegistryHas(selector, key)
                              THEN "DuplicateKeyError" ELSE "ok",
              mask_labels |-> SharedLabels(step_label)]

\* faulty variant of ParentObject: a parent that is not stored falls back to "init"
ParentObjectOrInit(parent) ==
    IF parent \in DOMAIN steps THEN steps[parent]
    ELSE IF "init" \in DOMAIN steps THEN steps["init"] ELSE 0

\* self.steps[parent]: the object found, 0 for a KeyError
ParentObject(parent) == IF parent \in DOMAIN steps THEN steps[parent] ELSE 0

\* add_selection_step(step_label, mask, parent, channel_wise)
AddSelectionStep(step_label, mask, parent, channel_wise) ==
    /\ ncalls' = ncalls + 1
    /\ call' = [op |-> "add_selection_step", step_label |-> step_label,
                mask |-> mask, parent |-> parent,
                channel_wise |-> channel_wise]
    /\ UNCHANGED <<run, channels, chanMask, minitree>>
    /\ IF parent = None
       THEN /\ result' = "MissingParentError"
            /\ UNCHANGED <<selector, heap, steps, made>>
       ELSE LET reg == RegisterStepMasks(step_label, mask, channel_wise)
            IN  /\ selector' = reg.selector
                /\ IF reg.error # "ok"
                   THEN /\ result' = reg.error
                        /\ UNCHANGED <<heap, steps, made>>
                   ELSE IF ParentObject(parent) = 0
                   THEN /\ result' = "MissingParentError"
                        /\ UNCHANGED <<heap, steps, made>>
                   ELSE /\ StoreStep(step_label,
                                     ChildStep(step_label, reg.mask_labels,
                                               ParentObject(parent)),
                                     call')
                        /\ result' = "ok"

\* add_selection_step with channel_wise=False
AddSharedStep ==
    /\ CanCall
    /\ \E step_label \in StepLabels, parent \in ParentNames \cup {None},
          mask \in Masks :
           AddSelectionStep(step_label, mask, parent, FALSE)
    /\ UNCHANGED pc

\* add_selection_step with channel_wise=True
AddChannelWiseStep ==
    /\ CanCall
    /\ \E step_label \in StepLabels, parent \in ParentNames \cup {None},
          mask \in ChannelMaskDicts :
           AddSelectionStep(step_label, mask, parent, TRUE)
    /\ UNCHANGED pc

\* ------------------------------------------------------- snapshots
\* self.step_tag, set by the Selector's __init__
step_tag ==
    IF cfg.selector_script = "htautau" THEN "tree_variables_"
    ELSE "ttBar_treeVariables_"

\* the fields of the event records of the batch
EventFields == {"event", "raw"}

\* the value of a field of the i-th event of the batch
EventField(i, field) == IF field = "event" THEN 100 + i ELSE i

\* cfg['structure']: output field name -> field of the event record
Structure == [eventNumber |-> "event"]

\* events[mask]: the positions of the events the mask lets through, in
\* batch order
RECURSIVE FilterEvents(_, _)
FilterEvents(mask, upto) ==
    IF upto = 0 THEN <<>>
    ELSE IF mask[upto] THEN Append(FilterEvents(mask, upto - 1), upto)
    ELSE FilterEvents(mask, upto - 1)

\* selection_utils.make_snapshot(selected_events, structure): one column
\* per output field of the structure whose field the events have
Materialize(selected) ==
    [key \in {k \in DOMAIN Structure : Structure[k] \in EventFields} |->
        [j \in 1..Len(selected) |-> EventField(selected[j], Structure[key])]]

\* faulty variant of EnsureChannel: the channel's dict is created anew by
\* every snapshot
ResetChannel(tree, chan) == Put(tree, chan, EmptyDict)

\* `if chan not in self.minitree: self.minitree[chan] = {}`
EnsureChannel(tree, chan) ==
    IF chan \in DOMAIN tree THEN tree ELSE Put(tree, chan, EmptyDict)

\* faulty variant of SnapshotMask: the snapshot keeps the events of the
\* channel, whatever the step
SnapshotMaskOfChannel(id, chan) == chanMask[chan]

\* the mask make_snapshot filters the batch with
SnapshotMask(id, chan) == Survivors(id, chan)

\* the loop `for chan in self.channels` of make_snapshot on a stored step
RECURSIVE SnapshotEach(_, _, _, _)
SnapshotEach(tree, chans, id, key) ==
    IF chans = <<>> THEN tree
    ELSE LET chan  == Head(chans)
             tree1 == EnsureChannel(tree, chan)
             table == Materialize(FilterEvents(SnapshotMask(id, chan), nevents))
         IN  SnapshotEach(Put(tree1, chan, Put(tree1[chan], key, table)),
                          Tail(chans), id, key)

\* make_snapshot(events, step_label, step_name); self.steps[step_label] of
\* a label that is not stored is a KeyError, raised for the first channel
\* after its minitree dict has been created
DoMakeSnapshot(step_label, step_name) ==
    /\ ncalls' = ncalls + 1
    /\ call' = [op |-> "make_snapshot", step_label |-> step_label,
                step_name |-> step_name]
    /\ UNCHANGED <<run, channels, chanMask, selector, heap, steps, made>>
    /\ IF channels = <<>>
       THEN result' = "ok" /\ minitree' = minitree
       ELSE IF step_label \notin DOMAIN steps
       THEN /\ result' = "MissingStepError"
            /\ minitree' = EnsureChannel(minitree, Head(channels))
       ELSE /\ result' = "ok"
            /\ minitree' = SnapshotEach(minitree, channels, steps[step_label],
                                        step_tag \o step_name)

\* make_snapshot, called at any time
MakeSnapshot ==
    /\ CanCall
    /\ \E step_label \in ParentNames, step_name \in StepNames :
           DoMakeSnapshot(step_label, step_name)
    /\ UNCHANGED pc

Next ==
    \/ SetChannels
    \/ InitSelection
    \/ AddSharedStep
    \/ AddChannelWiseStep
    \/ MakeSnapshot

Spec == Init /\ [][Next]_vars

\* ------------------------------------------- a caller that goes on
\* the engine's methods raise plain exceptions; a caller that catches one
\* may call the engine again

\* except ...: pass
CatchError ==
    /\ ~Running
    /\ result' = "ok"
    /\ UNCHANGED <<run, pc, channels, chanMask, selector, heap, steps, made,
                   call, ncalls, minitree>>

\* the calls of a caller that adds shared steps only
CallerNext ==
    \/ SetChannels
    \/ InitSelection
    \/ AddSharedStep
    \/ CatchError

CallerSpec == Init /\ [][CallerNext]_vars

\* ------------------------------------------------ cutflow histograms
\* create_cutflow_histograms(events, last_step, weight_field="eventWeight")

\* values of events["eventWeight"]; generator weights may be negative
WeightValues == {-1, 0, 2}

\* ak.sum(events[mask][weight_field]) over the first upto events
RECURSIVE SumWeights(_, _, _)
SumWeights(mask, weights, upto) ==
    IF upto = 0 THEN 0
    ELSE SumWeights(mask, weights, upto - 1)
         + (IF mask[upto] THEN weights[upto] ELSE 0)

\* events[weight_field]**2
Squared(weights) == [i \in DOMAIN weights |-> weights[i] * weights[i]]

\* faulty variant of CutflowMask: only the label added last is applied
CutflowMaskLastOnly(names) ==
    IF names = <<>> THEN [i \in 1..nevents |-> TRUE]
    ELSE selector[names[Len(names)]]

\* self.selector.all(*labels[chan][1:])
CutflowMask(names) == RegistryAll(selector, names)

\* the loop over step_labels: one entry (label, summed weight, summed
\* squared weight) per label, after the entry "Initial" of the whole batch;
\* the entries are what the histogram "nevents" of the channel is set to
Cutflow(step_labels, weights) ==
    [k \in 1..(Len(step_labels) + 1) |->
        LET mask == CutflowMask(SubSeq(step_labels, 1, k - 1))
        IN  <<IF k = 1 THEN "Initial" ELSE step_labels[k - 1],
              SumWeights(mask, weights, nevents),
              SumWeights(mask, Squared(weights), nevents)>>]

RECURSIVE CutflowEach(_, _, _, _)
CutflowEach(histos, chans, last_step, weights) ==
    IF chans = <<>> THEN histos
    ELSE LET chan == Head(chans)
             mine == IF chan \in DOMAIN histos THEN histos[chan]
                     ELSE EmptyDict
         IN  CutflowEach(
                 Put(histos, chan,
                     Put(mine, "nevents",
                         Cutflow(last_step.mask_labels[chan], weights))),
                 Tail(chans), last_step, weights)

\* last_step is a step object the engine created; its mask_labels have the
\* keys of self.channels and hold registered names only
CreateCutflowHistograms ==
    /\ Running
    /\ nevents + ncalls <= MaxSize
    /\ \E id \in 1..Len(heap) :
        \E weights \in [1..nevents -> WeightValues] :
            /\ call' = [op |-> "create_cutflow_histograms", last_step |-> id,
                        weights |-> weights]
            /\ histograms' = CutflowEach(histograms, channels, heap[id], weights)
    /\ ncalls' = ncalls + 1
    /\ result' = "ok"
    /\ UNCHANGED <<nevents, events, cfg, mappings, status, files, phase, pc,
                   channels, chanMask, selector, heap, steps, made, minitree>>

CutflowNext ==
    \/ SetChannels
    \/ InitSelection
    \/ AddSharedStep
    \/ AddChannelWiseStep
    \/ CreateCutflowHistograms

CutflowSpec == Init /\ [][CutflowNext]_vars

\* ------------------------------------------- the concrete Selectors
\* one process() run of selectors/dilepton.py or selectors/htautau.py:
\* pre_selection defines the channels, event_selection drives the engine

\* the call records of event_selection
Shared(step_label, parent) ==
    [op |-> "add_selection_step", step_label |-> step_label,
     parent |-> parent, channel_wise |-> FALSE]

PerChannel(step_label, parent) ==
    [op |-> "add_selection_step", step_label |-> step_label,
     parent |-> parent, channel_wise |-> TRUE]

Snapshot(step_label, step_name) ==
    [op |-> "make_snapshot", step_label |-> step_label,
     step_name |-> step_name]

\* the add_selection_step calls of the dilepton Selector, in program order
DileptonCuts ==
    << Shared("METFilters", "init"),
       PerChannel("Triggers", "METFilters"),
       Shared("PrimaryVertex", "Triggers"),
       Shared("LeptonMultiplicity", "PrimaryVertex"),
       Shared("LeptonInvariantMass", "LeptonMultiplicity"),
       PerChannel("Zwindow", "LeptonInvariantMass"),
       PerChannel("InvertZwindow", "LeptonInvariantMass"),
       Shared("JetMultiplicity", "Zwindow"),
       Shared("JetMultiplicity_zWindow", "InvertZwindow"),
       PerChannel("MET", "JetMultiplicity"),
       PerChannel("MET_zWindow", "JetMultiplicity_zWindow"),
       Shared("BJetMultiplicity", "MET"),
       Shared("BJetMultiplicity_zWindow", "MET_zWindow") >>

\* the make_snapshot calls of the dilepton Selector, in program order
DileptonSnapshots ==
    << Snapshot("METFilters", "step1a"),
       Snapshot("PrimaryVertex", "step1"),
       Snapshot("LeptonMultiplicity", "step2"),
       Snapshot("LeptonInvariantMass", "step3"),
       Snapshot("Zwindow", "step4"),
       Snapshot("InvertZwindow", "step4_zWindow"),
       Snapshot("JetMultiplicity", "step5"),
       Snapshot("JetMultiplicity_zWindow", "step5_zWindow"),
       Snapshot("MET", "step6"),
       Snapshot("MET_zWindow", "step6_zWindow"),
       Snapshot("BJetMultiplicity", "step7"),
       Snapshot("BJetMultiplicity_zWindow", "step7_zWindow") >>

\* faulty variant of DileptonSelection: the snapshots are taken before the
\* cuts are added
DileptonSnapshotsFirst ==
    <<[op |-> "step0_snapshot"], [op |-> "init_selection"]>>
        \o DileptonSnapshots \o DileptonCuts

\* the engine calls of the dilepton Selector's event_selection
DileptonSelection ==
    <<[op |-> "step0_snapshot"], [op |-> "init_selection"]>>
        \o DileptonCuts \o DileptonSnapshots

\* the engine calls of the tau-lepton Selector's event_selection
HtautauSelection ==
    << [op |-> "init_selection"],
       Shared("METFilters", "init"),
       Shared("PrimaryVertex", "METFilters"),
       Shared("LeptonInvariantMass", "PrimaryVertex"),
       Shared("JetMultiplicity", "LeptonInvariantMass"),
       Snapshot("METFilters", "stepMET"),
       Snapshot("PrimaryVertex", "stepPV"),
       Snapshot("LeptonInvariantMass", "stepLepInvMass"),
       Snapshot("JetMultiplicity", "stepJetMult") >>

\* the engine calls of the loaded Selector's event_selection
event_selection ==
    IF cfg.selector_script = "htautau" THEN HtautauSelection
    ELSE DileptonSelection

\* what a Selector reads of an event: the pdgId of the negative and of the
\* positive lepton of the pair (-999 when there is none), llbar.M,
\* PuppiMET.Pt, and the yes/no cuts the event fails
PdgLep == {11, 13, 15, -999}
PdgLbar == {-11, -13, -15, -999}
MassValues == {0, 50, 90}
MetValues == {0, 50}
YesNoCuts ==
    {"METFilters", "Triggers_ee", "Triggers_mumu", "Triggers_emu",
     "PrimaryVertex", "LeptonMultiplicity", "JetMultiplicity",
     "BJetMultiplicity"}

\* the event records failing at most k yes/no cuts
EventRecords(k) ==
    [pdg_lep : PdgLep, pdg_lbar : PdgLbar, M : MassValues, MET : MetValues,
     failed : {f \in SUBSET YesNoCuts : Cardinality(f) <= k}]

\* the mask of a yes/no cut
Passes(cut) == [i \in 1..nevents |-> cut \notin events[i].failed]

\* z_window = (events.llbar.M < 76) | (events.llbar.M > 106)
z_window == [i \in 1..nevents |-> events[i].M < 76 \/ events[i].M > 106]

\* faulty variant of EeMumuEmu: emu gets the mask of ee and mumu
EeMumuEmuAlike(same, emu) == [chan \in {"ee", "mumu", "emu"} |-> same]

\* the same mask for ee and mumu, another one for emu
EeMumuEmu(same, emu) ==
    [chan \in {"ee", "mumu", "emu"} |-> IF chan = "emu" THEN emu ELSE same]

\* the mask argument of the dilepton Selector's add_selection_step calls
DileptonMask(step_label) ==
    CASE step_label = "Triggers" ->
            [chan \in Range(channels) |-> Passes("Triggers_" \o chan)]
      [] step_label = "LeptonInvariantMass" ->
            [i \in 1..nevents |-> events[i].M > 20]
      [] step_label = "Zwindow" ->
            EeMumuEmu(z_window, [i \in 1..nevents |-> events[i].M > 0])
      [] step_label = "InvertZwindow" ->
            EeMumuEmu([i \in 1..nevents |-> ~z_window[i]],
                      [i \in 1..nevents |-> events[i].M < 0])
      [] step_label \in {"MET", "MET_zWindow"} ->
            EeMumuEmu([i \in 1..nevents |-> events[i].MET > 40],
                      [i \in 1..nevents |-> events[i].MET > 0])
      [] step_label = "JetMultiplicity_zWindow" -> Passes("JetMultiplicity")
      [] step_label = "BJetMultiplicity_zWindow" -> Passes("BJetMultiplicity")
      [] OTHER -> Passes(step_label)

\* the mask argument of the tau-lepton Selector's add_selection_step calls
HtautauMask(step_label) ==
    IF step_label = "LeptonInvariantMass"
    THEN [i \in 1..nevents |-> events[i].M > 20]
    ELSE Passes(step_label)


\* faulty variant of DileptonChannels: emu accepts any electron or muon pair
DileptonChannelsAnyFlavour ==
    [ee   |-> [i \in 1..nevents |->
                 events[i].pdg_lep = 11 /\ events[i].pdg_lbar = -11],
     mumu |-> [i \in 1..nevents |->
                 events[i].pdg_lep = 13 /\ events[i].pdg_lbar = -13],
     emu  |-> [i \in 1..nevents |->
                 /\ events[i].pdg_lep \in {11, 13}
                 /\ events[i].pdg_lbar \in {-11, -13}]]

\* the channels of the dilepton Selector
DileptonChannels ==
    [ee   |-> [i \in 1..nevents |->
                 events[i].pdg_lep = 11 /\ events[i].pdg_lbar = -11],
     mumu |-> [i \in 1..nevents |->
                 events[i].pdg_lep = 13 /\ events[i].pdg_lbar = -13],
     emu  |-> [i \in 1..nevents |->
                 \/ events[i].pdg_lep = 13 /\ events[i].pdg_lbar = -11
                 \/ events[i].pdg_lep = 11 /\ events[i].pdg_lbar = -13]]

\* the channels of the tau-lepton Selector
HtautauChannels ==
    [etau   |-> [i \in 1..nevents |->
                   \/ events[i].pdg_lep = 11 /\ events[i].pdg_lbar = -15
                   \/ events[i].pdg_lep = 15 /\ events[i].pdg_lbar = -11],
     mutau  |-> [i \in 1..nevents |->
                   \/ events[i].pdg_lep = 13 /\ events[i].pdg_lbar = -15
                   \/ events[i].pdg_lep = 15 /\ events[i].pdg_lbar = -13],
     tautau |-> [i \in 1..nevents |->
                   events[i].pdg_lep = 15 /\ events[i].pdg_lbar = -15]]

\* Selector.pre_selection: self.channels = {...}, called by process()
\* before event_selection
PreSelection ==
    /\ Running
    /\ pc = 0
    /\ channels = <<>>
    /\ IF cfg.selector_script = "htautau"
       THEN /\ channels' = <<"etau", "mutau", "tautau">>
            /\ chanMask' = HtautauChannels
       ELSE /\ channels' = <<"ee", "mumu", "emu">>
            /\ chanMask' = DileptonChannels
    /\ UNCHANGED <<run, pc, selector, heap, steps, made, call, result, ncalls,
                   minitree>>

\* event_selection has a next engine call to make
Selecting == Running /\ channels # <<>> /\ pc < Len(event_selection)

\* the next engine call of event_selection
NextCall == event_selection[pc + 1]

\* selection_utils.make_snapshot(events[chan_mask], structure,
\* empty_reco=True): the columns of the fields without "gen" in their name
\* hold -999 for every event
MaterializeEmptyReco(selected) ==
    [key \in {k \in DOMAIN Structure : Structure[k] \in EventFields} |->
        [j \in 1..Len(selected) |-> -999]]

\* the loop `for gen_channel, chan_mask in self.gen_channels.items()` of
\* step0_snapshot; gen_channels is channels when the Selector defines none
RECURSIVE Step0Each(_, _)
Step0Each(tree, chans) ==
    IF chans = <<>> THEN tree
    ELSE LET chan  == Head(chans)
             tree1 == EnsureChannel(tree, chan)
             table == MaterializeEmptyReco(FilterEvents(chanMask[chan], nevents))
         IN  Step0Each(Put(tree1, chan,
                           Put(tree1[chan], step_tag \o "step0", table)),
                       Tail(chans))

\* self.step0_snapshot(events)
Step0Snapshot ==
    /\ Selecting
    /\ NextCall.op = "step0_snapshot"
    /\ pc' = pc + 1
    /\ ncalls' = ncalls + 1
    /\ call' = NextCall
    /\ result' = "ok"
    /\ minitree' = IF cfg.isSignal THEN Step0Each(minitree, channels)
                   ELSE minitree
    /\ UNCHANGED <<run, channels, chanMask, selector, heap, steps, made>>

\* self.init_selection()
RunInitSelection ==
    /\ Selecting
    /\ NextCall.op = "init_selection"
    /\ pc' = pc + 1
    /\ DoInitSelection

\* the trigger groups of a configured era, and of an era without groups
ConfiguredHLT == [ee |-> [triggers |-> <<"HLT_A">>, datasets |-> {"EGamma"}]]
NoGroupsHLT == EmptyDict

\* the masks of the next call cannot be built: the dilepton Selector calls
\* dilepton_hlt_mask for the step "Triggers", which for data reads the
\* variable dataset that only the loop over the groups of cfg["HLT"] binds
MaskRaises ==
    /\ NextCall.op = "add_selection_step"
    /\ NextCall.step_label = "Triggers"
    /\ cfg.selector_script = "dilepton"
    /\ cfg.isData = "True"
    /\ DOMAIN cfg.HLT = {}

\* the exception of dilepton_hlt_mask leaves event_selection before
\* add_selection_step is entered
TriggerMaskRaises ==
    /\ Selecting
    /\ MaskRaises
    /\ result' = "UnboundLocalError"
    /\ UNCHANGED <<run, pc, channels, chanMask, selector, heap, steps, made,
                   call, ncalls, minitree>>

\* self.add_selection_step(...)
RunAddSelectionStep ==
    /\ Selecting
    /\ NextCall.op = "add_selection_step"
    /\ ~MaskRaises
    /\ pc' = pc + 1
    /\ AddSelectionStep(NextCall.step_label,
                        IF cfg.selector_script = "htautau"
                        THEN HtautauMask(NextCall.step_label)
                        ELSE DileptonMask(NextCall.step_label),
                        NextCall.parent, NextCall.channel_wise)

\* self.make_snapshot(events, step_label, step_name=...)
RunMakeSnapshot ==
    /\ Selecting
    /\ NextCall.op = "make_snapshot"
    /\ pc' = pc + 1
    /\ DoMakeSnapshot(NextCall.step_label, NextCall.step_name)

\* a run of process() on a batch: twice the number of events plus the
\* number of yes/no cuts an event may fail stays below MaxSize
SelectorInit ==
    /\ \E n \in 1..MaxSize :
          /\ 2 * n < MaxSize
          /\ nevents = n
          /\ events \in [1..n -> EventRecords(MaxSize - 1 - 2 * n)]
    /\ cfg \in [selector_script : {"dilepton", "htautau"}, isSignal : BOOLEAN,
                 isData : {"False"}, HLT : {ConfiguredHLT}]
    /\ mappings = [HLTPaths |-> <<>>]
    /\ status = <<>>
    /\ files = EmptyDict
    /\ histograms = EmptyDict
    /\ phase = "process"
    /\ pc = 0
    /\ channels = <<>>
    /\ chanMask = EmptyDict
    /\ selector = EmptyDict
    /\ heap = <<>>
    /\ steps = EmptyDict
    /\ made = <<>>
    /\ call = [op |-> "new"]
    /\ result = "ok"
    /\ ncalls = 0
    /\ minitree = EmptyDict

SelectorNext ==
    \/ PreSelection
    \/ Step0Snapshot
    \/ RunInitSelection
    \/ RunAddSelectionStep
    \/ RunMakeSnapshot

SelectorSpec == SelectorInit /\ [][SelectorNext]_vars

\* --------------------------------------------------- run_processor.main
\* main opens the status file and writes its first line, then, inside one
\* try block, loads the Selector, runs process() on the events of the input
\* file, saves the returned outputs per channel and writes the closing line;
\* the except clause records the exception and raises it again

\* what process() returns in the output mode "minitree" (self.output_mode is
\* never changed after __init__); the histograms of weightedEvents are not
\* followed, the entry is None as for data
Output ==
    [minitree |-> minitree, weightedEvents |-> None, channels |-> channels]

\* faulty variant of FailureRecord: the closing line of a successful run
FailureRecordCompleted(message) == <<"SELECTION COMPLETED">>

\* the lines the except clause writes: "FAILED:" and str(e)
FailureRecord(message) == <<"FAILED:", message>>

\* str(e) of the exceptions followed
MessageOf(error) ==
    CASE error = "KeyError" -> "'tree'"
      [] error = "FileNotFoundError" -> "No such file or directory"
      [] OTHER -> error

\* `if not array: continue`: the branches of a channel that are written
BranchesWritten(tree) == {key \in DOMAIN tree : DOMAIN tree[key] # {}}

\* the loop `for chan in output["channels"]` over the remaining channels:
\* the file of the channel is recreated, then output["tree"][chan] is read
RECURSIVE SaveTrees(_, _, _, _)
SaveTrees(output, chans, written, lines) ==
    IF chans = <<>>
    THEN [files |-> written, status |-> lines, error |-> "ok"]
    ELSE LET chan    == Head(chans)
             created == Put(written, chan, EmptyDict)
         IN  IF "tree" \notin DOMAIN output
             THEN [files |-> created, status |-> lines, error |-> "KeyError"]
             ELSE SaveTrees(
                     output, Tail(chans),
                     Put(created, chan,
                         [key \in BranchesWritten(output["tree"][chan]) |->
                             output["tree"][chan][key]]),
                     Append(lines, "Saved final tree for channel " \o chan))

\* load_processor(fw_config) and the opening of the input file: the script
\* or the file may be missing
LoadProcessor ==
    /\ phase = "start"
    /\ \E found \in BOOLEAN :
          IF found
          THEN phase' = "process" /\ UNCHANGED result
          ELSE phase' = "raised" /\ result' = "FileNotFoundError"
    /\ UNCHANGED <<nevents, events, cfg, mappings, status, files, pc,
                   channels, chanMask, selector, heap, steps, made, call,
                   ncalls, minitree, histograms>>

\* process() has made every engine call of event_selection
ProcessReturns ==
    Running /\ channels # <<>> /\ pc = Len(event_selection)

\* the rest of the try block once process() has returned: the outputs are
\* saved per channel and the closing line is written, or an exception leaves
\* the block
SaveOutputs ==
    /\ phase = "process"
    /\ ProcessReturns
    /\ LET saved == SaveTrees(Output, Output.channels, files, status)
       IN  /\ files' = saved.files
           /\ result' = saved.error
           /\ IF saved.error = "ok"
              THEN /\ status' = Append(saved.status, "SELECTION COMPLETED")
                   /\ phase' = "done"
              ELSE /\ status' = saved.status
                   /\ phase' = "raised"
    /\ UNCHANGED <<nevents, events, cfg, mappings, pc, channels, chanMask,
                   selector, heap, steps, made, call, ncalls, minitree,
                   histograms>>

\* except Exception as e: the status lines are written and e is raised again
\* (an exception of process() leaves it at the failing call)
HandleException ==
    /\ \/ phase = "raised"
       \/ phase = "process" /\ ~Running
    /\ status' = status \o FailureRecord(MessageOf(result))
    /\ phase' = "failed"
    /\ UNCHANGED <<nevents, events, cfg, mappings, files, pc, channels,
                   chanMask, selector, heap, steps, made, call, result,
                   ncalls, minitree, histograms>>

\* selector.process(events)
Process == phase = "process" /\ (SelectorNext \/ TriggerMaskRaises)

\* a run of main on an input file
MainInit ==
    /\ \E n \in 1..MaxSize :
          /\ 2 * n < MaxSize
          /\ nevents = n
          /\ events \in [1..n -> EventRecords(MaxSize - 1 - 2 * n)]
    /\ cfg \in [selector_script : {"dilepton", "htautau"}, isSignal : BOOLEAN,
                 isData : {"True", "False"},
                 HLT : {ConfiguredHLT, NoGroupsHLT}]
    /\ mappings = [HLTPaths |-> <<>>]
    /\ status = <<"Processing file">>
    /\ files = EmptyDict
    /\ histograms = EmptyDict
    /\ phase = "start"
    /\ pc = 0
    /\ channels = <<>>
    /\ chanMask = EmptyDict
    /\ selector = EmptyDict
    /\ heap = <<>>
    /\ steps = EmptyDict
    /\ made = <<>>
    /\ call = [op |-> "new"]
    /\ result = "ok"
    /\ ncalls = 0
    /\ minitree = EmptyDict

MainNext ==
    \/ LoadProcessor
    \/ Process
    \/ SaveOutputs
    \/ HandleException

MainSpec == MainInit /\ [][MainNext]_vars

\* ------------------------------------------- Selector.dilepton_hlt_mask
\* dilepton_hlt_mask(events, channel, hlt_map, cfg) reads events.HLTidx (the
\* positions, in the run's trigger-path list, of the paths an event fired),
\* cfg["HLT"], cfg["isData"] and cfg["process"]

\* trigger path names
PathNames == {"HLT_A", "HLT_B"}

\* the trigger groups dilepton_hlt_mask combines
GroupNames == {"ee", "se", "emu", "smu", "mumu"}

\* the channel argument: "tautau" is no dilepton channel
HltChannels == {"ee", "mumu", "emu", "tautau"}

\* the last "_"-separated part of cfg["process"]
ProcessSuffixes ==
    {"eGamma", "muonEG", "muon", "singleMuon", "doubleMuon", "tau"}

\* dataset[0].upper() + dataset[1:]
Capitalize(word) ==
    CASE word = "eGamma" -> "EGamma"
      [] word = "muonEG" -> "MuonEG"
      [] word = "muon" -> "Muon"
      [] word = "singleMuon" -> "SingleMuon"
      [] word = "doubleMuon" -> "DoubleMuon"
      [] word = "tau" -> "Tau"
      [] OTHER -> word

\* dataset = cfg["process"].split("_")[-1], capitalized; cfg.process holds
\* the "_"-separated parts
Dataset ==
    LET last == cfg.process[Len(cfg.process)]
    IN  IF last = "" THEN "" ELSE Capitalize(last)

\* the sequences over a set of length at most n
SeqsUpTo(S, n) == UNION {[1..k -> S] : k \in 0..n}

\* the loop of lines 327-330: names are entered with their position until
\* a name comes that is already in the map, which ends the loop
RECURSIVE BuildIndexMap(_, _, _)
BuildIndexMap(map, names, pos) ==
    IF pos > Len(names) THEN map
    ELSE IF names[pos] \in DOMAIN map THEN map
    ELSE BuildIndexMap(Put(map, names[pos], pos - 1), names, pos + 1)

\* hlt_index_map
hlt_index_map(names) == BuildIndexMap(EmptyDict, names, 1)

\* false_mask()
false_mask == [i \in 1..nevents |-> FALSE]

\* idxs: the positions found for the paths of a group, in the group's order
\* faulty variant of Idxs: no index at all when one path is not in the map
IdxsAllOrNone(paths, map) ==
    IF \E k \in 1..Len(paths) : paths[k] \notin DOMAIN map THEN <<>>
    ELSE [k \in 1..Len(paths) |-> map[paths[k]]]

\* idxs: the indices of the group's paths that are in the map
RECURSIVE Idxs(_, _)
Idxs(paths, map) ==
    IF paths = <<>> THEN <<>>
    ELSE IF Head(paths) \in DOMAIN map
         THEN <<map[Head(paths)]>> \o Idxs(Tail(paths), map)
         ELSE Idxs(Tail(paths), map)

\* the mask of one group of cfg["HLT"]
GroupMask(grp_hlt, map) ==
    IF cfg.isData = "True" /\ Dataset \notin grp_hlt.datasets
    THEN false_mask
    ELSE LET idxs == Idxs(grp_hlt.triggers, map)
         IN  IF idxs = <<>> THEN false_mask
             ELSE [i \in 1..nevents |->
                     \E k \in 1..Len(idxs) : idxs[k] \in events[i].HLTidx]

\* tot_masks
TotMasks(map) ==
    [grp \in DOMAIN cfg.HLT |-> GroupMask(cfg.HLT[grp], map)]

\* M(name) = tot_masks.get(name, false_mask())
M(tot_masks, name) ==
    IF name \in DOMAIN tot_masks THEN tot_masks[name] ELSE false_mask

\* elementwise | and ~ of masks
MaskOr(a, b) == [i \in 1..nevents |-> a[i] \/ b[i]]
MaskNot(a) == [i \in 1..nevents |-> ~a[i]]

\* faulty variant of SimulationMask: only the channel's dedicated group
DedicatedGroupMask(channel, tm) == M(tm, channel)

\* cfg["isData"] == "False": the union of the groups of the channel
SimulationMask(channel, tm) ==
    CASE channel = "ee" -> MaskOr(M(tm, "ee"), M(tm, "se"))
      [] channel = "mumu" -> MaskOr(M(tm, "mumu"), M(tm, "smu"))
      [] channel = "emu" ->
            MaskOr(MaskOr(M(tm, "emu"), M(tm, "se")), M(tm, "smu"))

\* data: the table of lines 392-426 for the channels ee, emu, mumu
DataMask(channel, dataset, tm) ==
    CASE channel = "ee" ->
            IF dataset = "EGamma" THEN MaskOr(M(tm, "ee"), M(tm, "se"))
            ELSE false_mask
      [] channel = "emu" ->
            CASE dataset = "MuonEG" -> M(tm, "emu")
              [] dataset = "EGamma" ->
                    MaskAnd(M(tm, "se"), MaskNot(M(tm, "emu")))
              [] dataset \in {"SingleMuon", "Muon"} ->
                    MaskAnd(MaskAnd(M(tm, "smu"), MaskNot(M(tm, "emu"))),
                            MaskNot(M(tm, "se")))
              [] OTHER -> false_mask
      [] channel = "mumu" ->
            CASE dataset = "Muon" -> MaskOr(M(tm, "mumu"), M(tm, "smu"))
              [] dataset = "SingleMuon" ->
                    MaskAnd(MaskNot(M(tm, "mumu")), M(tm, "smu"))
              [] dataset = "DoubleMuon" -> M(tm, "mumu")
              [] OTHER -> false_mask

\* what dilepton_hlt_mask returns or raises; in data the variable dataset
\* is bound by the loop over the groups, so it is unbound when cfg["HLT"]
\* is empty
HltOutcome(channel, hlt_map) ==
    LET tm == TotMasks(hlt_index_map(hlt_map))
    IN  IF channel \notin {"ee", "mumu", "emu"}
            THEN [error |-> "ValueError"]
        ELSE IF cfg.isData = "False"
            THEN [error |-> "ok", returned |-> SimulationMask(channel, tm)]
        ELSE IF DOMAIN cfg.HLT = {}
            THEN [error |-> "UnboundLocalError"]
        ELSE [error |-> "ok", returned |-> DataMask(channel, Dataset, tm)]

\* self.dilepton_hlt_mask(events, chan, self.mappings['HLTPaths'], self.cfg)
DileptonHltMask ==
    /\ call.op = "new"
    /\ \E channel \in HltChannels :
          LET out == HltOutcome(channel, mappings.HLTPaths)
          IN  /\ result' = out.error
              /\ call' = [op |-> "dilepton_hlt_mask", channel |-> channel,
                          hlt_map |-> mappings.HLTPaths,
                          hlt_index_map |-> hlt_index_map(mappings.HLTPaths),
                          tot_masks |->
                              TotMasks(hlt_index_map(mappings.HLTPaths))]
                         @@ out
    /\ UNCHANGED <<run, pc, channels, chanMask, selector, heap, steps, made,
                   ncalls, minitree>>

\* the trigger lists and the dataset lists of a configured group
TriggerLists == {<<"HLT_A">>, <<"HLT_B">>, <<"HLT_A", "HLT_B">>}
DatasetLists ==
    {{"MuonEG"}, {"EGamma", "MuonEG", "Muon", "SingleMuon", "DoubleMuon"}}

\* cfg["HLT"]: at most MaxGroups groups; the dataset lists are read for
\* data only
HltConfigs(isData) ==
    UNION {[G -> [triggers : TriggerLists,
                  datasets : IF isData = "True" THEN DatasetLists
                             ELSE {{"MuonEG"}}]] :
             G \in {g \in SUBSET GroupNames : Cardinality(g) <= MaxGroups}}

\* a batch of events with the paths they fired, the run's path list, and a
\* configuration for simulation or for one of the data streams
HltInit ==
    /\ nevents \in 1..(MaxSize - 3)
    /\ mappings \in [HLTPaths : SeqsUpTo(PathNames, MaxPaths)]
    /\ status = <<>>
    /\ files = EmptyDict
    /\ histograms = EmptyDict
    /\ phase = "process"
    /\ events \in [1..nevents ->
                      [HLTidx : SUBSET (0..(Len(mappings.HLTPaths) - 1))]]
    /\ \E isData \in {"True", "False"} :
          cfg \in [selector_script : {"dilepton"},
                   isData : {isData},
                   process : IF isData = "True"
                             THEN {<<"run2022C", w>> : w \in ProcessSuffixes}
                             ELSE {<<"ttbarsignalplustau", "fromDilepton">>},
                   HLT : HltConfigs(isData)]
    /\ pc = 0
    /\ channels = <<>>
    /\ chanMask = EmptyDict
    /\ selector = EmptyDict
    /\ heap = <<>>
    /\ steps = EmptyDict
    /\ made = <<>>
    /\ call = [op |-> "new"]
    /\ result = "ok"
    /\ ncalls = 0
    /\ minitree = EmptyDict

HltNext == DileptonHltMask

HltSpec == HltInit /\ [][HltNext]_vars

\* ------------------------------------------------- reading the state

\* the configured groups whose masks a simulated channel combines
GroupsOfChannel(channel) ==
    CASE channel = "ee" -> {"ee", "se"}
      [] channel = "mumu" -> {"mumu", "smu"}
      [] channel = "emu" -> {"emu", "se", "smu"}
      [] OTHER -> {}

\* the step taken is a call of add_selection_step / of init_selection
AddCalled == ncalls' = ncalls + 1 /\ call'.op = "add_selection_step"
InitCalled == ncalls' = ncalls + 1 /\ call'.op = "init_selection"

\* the step taken is a call of make_snapshot
SnapshotCalled == ncalls' = ncalls + 1 /\ call'.op = "make_snapshot"

\* the call creates no step
NoStepCreated == steps' = steps /\ heap' = heap

\* the last call was an add_selection_step
LastWasAdd == call.op = "add_selection_step"

\* the registry keys the call c would register
KeysOf(c) ==
    IF c.channel_wise
    THEN {CompositeKey(chan, c.step_label) : chan \in Range(channels)}
    ELSE {c.step_label}

\* the configured channels for which the channel_wise call c gives no mask
MissingChannels(c) == {chan \in Range(channels) : chan \notin DOMAIN c.mask}

\* position of the first configured channel the call c gives no mask for
FirstMissing(c) ==
    CHOOSE i \in 1..Len(channels) :
        /\ channels[i] \notin DOMAIN c.mask
        /\ \A j \in 1..(i - 1) : channels[j] \in DOMAIN c.mask

\* every stored step with a parent was created after the object it was
\* built from
ParentCreatedFirst ==
    \A n \in DOMAIN steps :
        Node(n).has_parent => Node(n).parent \in 1..(steps[n] - 1)

\* ------------------------------------------------------------- claims

C2_DuplicateLabelRejected ==
    [][(/\ AddCalled
        /\ call'.step_label \in DOMAIN steps
        /\ call'.parent \in DOMAIN steps
        /\ (call'.channel_wise => MissingChannels(call') = {}))
       => (result' = "DuplicateKeyError" /\ NoStepCreated)]_vars

\* C3, as written: a channel_wise add_selection_step whose mask dict lacks
\* a configured channel fails with MissingChannelMaskError and stores no
\* step.
C3_MissingMaskAlwaysMissingChannelMaskError ==
    [][AddCalled /\ call'.channel_wise /\ MissingChannels(call') # {} =>
          result' = "MissingChannelMaskError" /\ NoStepCreated]_vars

\* C3, amended: a channel_wise add_selection_step whose mask dict lacks a
\* configured channel fails and stores no step; the error is
\* MissingChannelMaskError unless parent is None (MissingParentError) or
\* the composite key of a channel that precedes the first missing one is
\* already registered (DuplicateKeyError).
C3_MissingMaskRejected ==
    [][AddCalled /\ call'.channel_wise /\ MissingChannels(call') # {} =>
          /\ NoStepCreated
          /\ result' =
                IF call'.parent = None THEN "MissingParentError"
                ELSE IF \E j \in 1..(FirstMissing(call') - 1) :
                           CompositeKey(channels[j], call'.step_label)
                               \in DOMAIN selector
                     THEN "DuplicateKeyError"
                     ELSE "MissingChannelMaskError"]_vars

\* C3 witness: after init_selection, a channel_wise call below "init" with
\* a mask for the first of two channels only has failed with
\* MissingChannelMaskError, and no step is stored under its label
C3_Witness ==
    /\ LastWasAdd
    /\ call.channel_wise
    /\ call.parent = "init"
    /\ "init" \in DOMAIN steps
    /\ Len(channels) = 2
    /\ DOMAIN call.mask = {channels[1]}
    /\ result = "MissingChannelMaskError"
    /\ call.step_label \notin DOMAIN steps

\* C4: after init_selection() has returned on non-empty channels, the
\* registry holds every channel's mask under the channel's name, so that
\* all(channel) is that mask, and the step "init" is a root whose
\* mask_labels[channel] is [channel] for every channel.
C4_InitSelectionRegistersChannels ==
    call.op = "init_selection" /\ result = "ok" =>
        /\ channels # <<>>
        /\ \A chan \in Range(channels) :
              /\ chan \in DOMAIN selector
              /\ selector[chan] = chanMask[chan]
              /\ RegistryAll(selector, <<chan>>) = chanMask[chan]
        /\ "init" \in DOMAIN steps
        /\ Node("init").name = "init"
        /\ DOMAIN Node("init").mask_labels = Range(channels)
        /\ \A chan \in Range(channels) :
              Node("init").mask_labels[chan] = <<chan>>
        /\ ~Node("init").has_parent
        /\ Node("init").parent = 0

\* C4 witness: init_selection() has returned on two channels whose masks
\* differ
C4_Witness ==
    /\ call.op = "init_selection"
    /\ result = "ok"
    /\ Len(channels) = 2
    /\ chanMask[channels[1]] # chanMask[channels[2]]

\* C5: init_selection() on empty channels fails with ConfigurationError
\* and changes neither the registry nor the step mapping: no "init" step.
C5_EmptyChannelsRejected ==
    [][InitCalled /\ channels = <<>> =>
          /\ result' = "ConfigurationError"
          /\ selector' = selector
          /\ NoStepCreated
          /\ "init" \notin DOMAIN steps'
          /\ DOMAIN selector' = {}]_vars

\* C5 witness: init_selection() has failed with ConfigurationError
C5_Witness ==
    /\ call.op = "init_selection"
    /\ result = "ConfigurationError"
    /\ channels = <<>>
    /\ steps = EmptyDict

\* C6: for every stored step S made with parent P and every channel,
\* S.mask_labels[channel] is P.mask_labels[channel] followed by one label:
\* the step label for all channels, or the channel's composite label for
\* all channels.
C6_PrefixInvariant ==
    \A n \in DOMAIN steps :
        LET S == Node(n) IN
        S.has_parent =>
            /\ \A chan \in Range(channels) :
                  LET P == heap[S.parent] IN
                  /\ Len(S.mask_labels[chan]) = Len(P.mask_labels[chan]) + 1
                  /\ SubSeq(S.mask_labels[chan], 1, Len(P.mask_labels[chan]))
                        = P.mask_labels[chan]
            /\ \/ \A chan \in Range(channels) :
                     S.mask_labels[chan][Len(S.mask_labels[chan])] = S.name
               \/ \A chan \in Range(channels) :
                     S.mask_labels[chan][Len(S.mask_labels[chan])]
                         = CompositeKey(chan, S.name)

\* C6 witness: a channel_wise step is stored whose parent is a shared step
C6_Witness ==
    \E n \in DOMAIN steps :
        /\ Node(n).has_parent
        /\ made[steps[n]].channel_wise
        /\ heap[Node(n).parent].has_parent
        /\ ~made[Node(n).parent].channel_wise
        /\ Len(channels) = 2

\* length of the parent chain from a step object up to its root
RECURSIVE ChainLength(_)
ChainLength(id) ==
    IF heap[id].parent = 0 THEN 0 ELSE 1 + ChainLength(heap[id].parent)

\* C7: a stored step at the end of a parent chain of length k has k+1
\* labels for every channel, and its number_of_steps is k+1.
C7_LineageMonotonicity ==
    \A n \in DOMAIN steps :
        /\ \A chan \in Range(channels) :
              Len(Node(n).mask_labels[chan]) = ChainLength(steps[n]) + 1
        /\ Node(n).number_of_steps = ChainLength(steps[n]) + 1

\* C7 witness: a step at the end of a chain of length 2 is stored
C7_Witness ==
    \E n \in DOMAIN steps : ChainLength(steps[n]) = 2

\* number of events a mask lets through
RECURSIVE CountTrue(_, _)
CountTrue(mask, upto) ==
    IF upto = 0 THEN 0
    ELSE CountTrue(mask, upto - 1) + (IF mask[upto] THEN 1 ELSE 0)

\* C8: for every channel and every stored step S with parent P, each event
\* surviving S survives P, and S has no more survivors than P.
C8_ConjunctionMonotonicity ==
    \A n \in DOMAIN steps : \A chan \in Range(channels) :
        Node(n).has_parent =>
            /\ \A i \in 1..nevents :
                  Survivors(steps[n], chan)[i]
                      => Survivors(Node(n).parent, chan)[i]
            /\ CountTrue(Survivors(steps[n], chan), nevents)
                  <= CountTrue(Survivors(Node(n).parent, chan), nevents)

\* C8 witness: a stored step has fewer survivors than its parent, which
\* has some
C8_Witness ==
    \E n \in DOMAIN steps : \E chan \in Range(channels) :
        /\ Node(n).has_parent
        /\ CountTrue(Survivors(steps[n], chan), nevents)
              < CountTrue(Survivors(Node(n).parent, chan), nevents)
        /\ CountTrue(Survivors(steps[n], chan), nevents) > 0

\* the AND of the channel's base mask and of the masks supplied to the
\* add_selection_step calls on the parent chain down to a step object
RECURSIVE SuppliedAnd(_, _)
SuppliedAnd(id, chan) ==
    IF heap[id].parent = 0 THEN chanMask[chan]
    ELSE LET upper == SuppliedAnd(heap[id].parent, chan)
             own   == IF made[id].channel_wise THEN made[id].mask[chan]
                      ELSE made[id].mask
         IN  [i \in 1..nevents |-> upper[i] /\ own[i]]

\* C9: for every stored step and channel, the survivor mask is the
\* elementwise AND of the channel's base mask and the masks supplied along
\* the parent chain, a channel_wise step contributing the mask given for
\* that channel.
C9_SurvivorsAreAndOfSupplied ==
    \A n \in DOMAIN steps : \A chan \in Range(channels) :
        Survivors(steps[n], chan) = SuppliedAnd(steps[n], chan)

\* C9 witness: channel mask [T,T] AND shared step mask [T,F] gives [T,F]
C9_Witness ==
    /\ nevents = 2
    /\ \E n \in DOMAIN steps : \E chan \in Range(channels) :
          /\ Node(n).has_parent
          /\ ~made[steps[n]].channel_wise
          /\ chanMask[chan] = <<TRUE, TRUE>>
          /\ made[steps[n]].mask = <<TRUE, FALSE>>
          /\ Survivors(steps[n], chan) = <<TRUE, FALSE>>

\* C10: a successful add_selection_step with channel_wise=False registers
\* exactly one new key, step_label, bound to the given mask, and the new
\* step's mask_labels of every channel is the parent's list with
\* step_label appended.
C10_SharedStepRegistersOneKey ==
    [][AddCalled /\ ~call'.channel_wise /\ result' = "ok" =>
          /\ call'.step_label \notin DOMAIN selector
          /\ DOMAIN selector' = DOMAIN selector \cup {call'.step_label}
          /\ selector'[call'.step_label] = call'.mask
          /\ \A k \in DOMAIN selector : selector'[k] = selector[k]
          /\ call'.step_label \in DOMAIN steps'
          /\ call'.parent \in DOMAIN steps
          /\ \A chan \in Range(channels) :
                heap'[steps'[call'.step_label]].mask_labels[chan]
                    = Append(Node(call'.parent).mask_labels[chan],
                             call'.step_label)]_vars

\* C10 witness: a shared step has been added below a channel_wise step
C10_Witness ==
    /\ LastWasAdd
    /\ ~call.channel_wise
    /\ result = "ok"
    /\ Len(channels) = 2
    /\ made[steps[call.parent]].op = "add_selection_step"
    /\ made[steps[call.parent]].channel_wise

\* C11: a successful add_selection_step with channel_wise=True registers,
\* for every configured channel, one new key "<channel>_<step_label>" bound
\* to mask[channel] and nothing else, in particular no key step_label, and
\* the new step's mask_labels[channel] is the parent's list with that
\* channel's composite label appended.
C11_ChannelWiseStepRegistersCompositeKeys ==
    [][AddCalled /\ call'.channel_wise /\ result' = "ok" =>
          LET label == call'.step_label
              keys  == {chan \o "_" \o label : chan \in Range(channels)}
          IN  /\ keys \cap DOMAIN selector = {}
              /\ DOMAIN selector' = DOMAIN selector \cup keys
              /\ Cardinality(keys) = Len(channels)
              /\ label \notin keys
              /\ label \in DOMAIN selector' => label \in DOMAIN selector
              /\ \A k \in DOMAIN selector : selector'[k] = selector[k]
              /\ call'.parent \in DOMAIN steps
              /\ \A chan \in Range(channels) :
                    /\ chan \in DOMAIN call'.mask
                    /\ selector'[chan \o "_" \o label] = call'.mask[chan]
                    /\ heap'[steps'[label]].mask_labels[chan]
                          = Append(Node(call'.parent).mask_labels[chan],
                                   chan \o "_" \o label)]_vars

\* C11 witness: the channel_wise step "A" added below "init" on the channels
\* ee and mumu, with different masks, has the labels ["ee", "ee_A"] on ee
C11_Witness ==
    /\ LastWasAdd
    /\ call.channel_wise
    /\ result = "ok"
    /\ call.step_label = "A"
    /\ call.parent = "init"
    /\ channels = <<"ee", "mumu">>
    /\ call.mask["ee"] # call.mask["mumu"]
    /\ Node("A").mask_labels["ee"] = <<"ee", "ee_A">>
    /\ Node("A").mask_labels["mumu"] = <<"mumu", "mumu_A">>

\* C12: the step mapping is append-only: no engine call replaces or deletes
\* the node stored under a step name, and each successful
\* add_selection_step adds exactly one new step name.
C12_StepMappingAppendOnly ==
    [][/\ \A n \in DOMAIN steps : n \in DOMAIN steps' /\ steps'[n] = steps[n]
       /\ AddCalled /\ result' = "ok" =>
              /\ call'.step_label \notin DOMAIN steps
              /\ DOMAIN steps' = DOMAIN steps \cup {call'.step_label}]_vars

\* C13: no engine call (creating a child step, channel_wise or not, or
\* taking a snapshot) changes the name or the mask_labels of a step object
\* created before: the child's label lists are copies of its parent's.
C13_StepNodesImmutable ==
    [][\A id \in 1..Len(heap) :
          /\ id <= Len(heap')
          /\ heap'[id].name = heap[id].name
          /\ heap'[id].mask_labels = heap[id].mask_labels]_vars

\* C13 witness: a snapshot has been taken of a step made below "init" on
\* two channels, whose label lists are longer than those of "init"
C13_Witness ==
    /\ call.op = "make_snapshot"
    /\ result = "ok"
    /\ Len(channels) = 2
    /\ call.step_label \in DOMAIN steps
    /\ Node(call.step_label).has_parent
    /\ Node(call.step_label).parent = steps["init"]
    /\ \A chan \in Range(channels) :
          /\ Node("init").mask_labels[chan] = <<chan>>
          /\ Len(Node(call.step_label).mask_labels[chan]) = 2

\* C14: make_snapshot(events, step_label, step_name) on a stored step
\* succeeds and stores, for every configured channel, under
\* minitree[channel][step_tag + step_name] the table of exactly the events,
\* in batch order, for which the AND of the masks registered under the
\* step's labels of that channel is true; every other minitree entry is
\* left as it was.
C14_SnapshotStoresSurvivors ==
    [][SnapshotCalled /\ call'.step_label \in DOMAIN steps =>
        LET key == step_tag \o call'.step_name IN
        /\ result' = "ok"
        /\ DOMAIN minitree' = DOMAIN minitree \cup Range(channels)
        /\ \A chan \in Range(channels) :
              LET passing == {i \in 1..nevents :
                      \A k \in 1..Len(Node(call'.step_label).mask_labels[chan]) :
                          selector[Node(call'.step_label).mask_labels[chan][k]][i]}
                  col == minitree'[chan][key].eventNumber
              IN  /\ key \in DOMAIN minitree'[chan]
                  /\ DOMAIN minitree'[chan][key] = {"eventNumber"}
                  /\ Len(col) = Cardinality(passing)
                  /\ {col[j] : j \in 1..Len(col)} = {100 + i : i \in passing}
                  /\ \A j \in 1..(Len(col) - 1) : col[j] < col[j + 1]
        /\ \A chan \in DOMAIN minitree :
              /\ DOMAIN minitree'[chan] = DOMAIN minitree[chan]
                     \cup (IF chan \in Range(channels) THEN {key} ELSE {})
              /\ \A k \in DOMAIN minitree[chan] :
                     (chan \notin Range(channels) \/ k # key)
                         => minitree'[chan][k] = minitree[chan][k]]_vars

\* C14 witness: a snapshot of a channel_wise step below "init" keeps the
\* one event of the batch on channel ee and none on channel mumu, though
\* the event is in both channels
C14_Witness ==
    /\ call.op = "make_snapshot"
    /\ result = "ok"
    /\ nevents = 1
    /\ channels = <<"ee", "mumu">>
    /\ chanMask["ee"] = <<TRUE>> /\ chanMask["mumu"] = <<TRUE>>
    /\ call.step_label \in DOMAIN steps
    /\ made[steps[call.step_label]].op = "add_selection_step"
    /\ made[steps[call.step_label]].channel_wise
    /\ minitree["ee"][step_tag \o call.step_name].eventNumber = <<101>>
    /\ minitree["mumu"][step_tag \o call.step_name].eventNumber = <<>>

\* C15: make_snapshot changes neither the registry nor the step mapping nor
\* a step object; and a snapshot of a step label taken right after a
\* snapshot of the same label under another step_name leaves, for every
\* channel, two entries under two different keys with the same content.
C15_SnapshotSideEffectFree ==
    [][SnapshotCalled =>
          /\ selector' = selector
          /\ steps' = steps
          /\ heap' = heap
          /\ (/\ call.op = "make_snapshot"
              /\ call.step_label = call'.step_label
              /\ call.step_name # call'.step_name
              /\ call'.step_label \in DOMAIN steps)
             => \A chan \in Range(channels) :
                   LET first  == step_tag \o call.step_name
                       second == step_tag \o call'.step_name
                   IN  /\ first # second
                       /\ chan \in DOMAIN minitree'
                       /\ first \in DOMAIN minitree'[chan]
                       /\ second \in DOMAIN minitree'[chan]
                       /\ minitree'[chan][first] = minitree'[chan][second]
                       /\ minitree'[chan][first] = minitree[chan][first]]_vars

\* C15 witness: "init" has been snapshotted under "step1" and under "step2";
\* both entries of a channel hold the one event of the batch
C15_Witness ==
    /\ call.op = "make_snapshot"
    /\ result = "ok"
    /\ ncalls = 3
    /\ DOMAIN steps = {"init"}
    /\ call.step_label = "init"
    /\ \E chan \in Range(channels) :
          /\ chan \in DOMAIN minitree
          /\ DOMAIN minitree[chan] = {step_tag \o "step1", step_tag \o "step2"}
          /\ minitree[chan][step_tag \o "step1"].eventNumber = <<101>>
          /\ minitree[chan][step_tag \o "step2"].eventNumber = <<101>>

\* C16: in one process() run of the dilepton or of the tau-lepton
\* Selector, init_selection is called with channels set, every
\* add_selection_step names a stored parent, brings a mask for every
\* channel and registers only new keys, every make_snapshot names a stored
\* step, and no call ends in an error.
C16_SelectorsDriveEngineInOrder ==
    /\ []Running
    /\ [][/\ InitCalled =>
             (/\ channels # <<>>
              /\ Range(channels) \cap DOMAIN selector = {})
          /\ AddCalled =>
             (/\ call'.parent \in DOMAIN steps
              /\ call'.step_label \notin DOMAIN steps
              /\ KeysOf(call') \cap DOMAIN selector = {}
              /\ (call'.channel_wise => MissingChannels(call') = {})
              /\ call'.step_label \in DOMAIN steps')
          /\ SnapshotCalled =>
             (/\ call'.step_label \in DOMAIN steps
              /\ call'.step_label # "init")]_vars

\* C16 witness: the dilepton Selector's event_selection has made all its
\* calls on a signal batch: 14 steps are stored and every channel holds the
\* step-0 snapshot and the 12 snapshots of the cuts
C16_Witness ==
    /\ cfg.selector_script = "dilepton"
    /\ cfg.isSignal
    /\ pc = Len(DileptonSelection)
    /\ result = "ok"
    /\ Cardinality(DOMAIN steps) = 14
    /\ \A chan \in {"ee", "mumu", "emu"} :
          Cardinality(DOMAIN minitree[chan]) = 13

\* event i fired the path: HLTidx holds a position of the name in the list
PathFired(i, path) ==
    \E k \in 1..Len(mappings.HLTPaths) :
        mappings.HLTPaths[k] = path /\ (k - 1) \in events[i].HLTidx

\* event i fired one of the paths configured for the group
GroupFired(i, grp) ==
    /\ grp \in DOMAIN cfg.HLT
    /\ \E k \in 1..Len(cfg.HLT[grp].triggers) :
          PathFired(i, cfg.HLT[grp].triggers[k])

\* the trigger-mask call has run, whether it returned or raised
HltCalled == call.op = "dilepton_hlt_mask"

\* the group's path is in the index map and the event fired its index
ResolvedFired(i, path) ==
    /\ path \in DOMAIN call.hlt_index_map
    /\ call.hlt_index_map[path] \in events[i].HLTidx

\* a configured path of the group is not in the index map
HasAbsentPath(grp) ==
    \E k \in 1..Len(cfg.HLT[grp].triggers) :
        cfg.HLT[grp].triggers[k] \notin DOMAIN call.hlt_index_map

\* in data, the group does not list the dataset of the batch
DatasetExcluded(grp) ==
    cfg.isData = "True" /\ Dataset \notin cfg.HLT[grp].datasets

\* the trigger-mask call has returned a mask
HltReturned == call.op = "dilepton_hlt_mask" /\ result = "ok"

\* C17: for simulation the trigger mask of a channel is the OR of the masks
\* of its groups (ee: ee, se; mumu: mumu, smu; emu: emu, se, smu); with the
\* path list [HLT_A, HLT_B], group ee = [HLT_A] and group se = [HLT_B], an
\* event that fired only HLT_B passes the channel "ee".
C17_SimulationMaskIsUnionOfGroups ==
    (HltReturned /\ cfg.isData = "False") =>
        /\ \A i \in 1..nevents :
              call.returned[i] <=>
                  \E grp \in GroupsOfChannel(call.channel) \cap DOMAIN cfg.HLT :
                      GroupMask(cfg.HLT[grp],
                                hlt_index_map(mappings.HLTPaths))[i]
        /\ ( /\ call.channel = "ee"
             /\ mappings.HLTPaths = <<"HLT_A", "HLT_B">>
             /\ DOMAIN cfg.HLT = {"ee", "se"}
             /\ cfg.HLT["ee"].triggers = <<"HLT_A">>
             /\ cfg.HLT["se"].triggers = <<"HLT_B">>
             => \A i \in 1..nevents :
                    events[i].HLTidx = {1} => call.returned[i] )

C17_Witness ==
    /\ HltReturned
    /\ cfg.isData = "False"
    /\ call.channel = "ee"
    /\ mappings.HLTPaths = <<"HLT_A", "HLT_B">>
    /\ DOMAIN cfg.HLT = {"ee", "se"}
    /\ cfg.HLT["ee"].triggers = <<"HLT_A">>
    /\ cfg.HLT["se"].triggers = <<"HLT_B">>
    /\ events[1].HLTidx = {1}
    /\ call.returned[1]

\* C18: for data, whatever the triggers and datasets lists of the groups, an
\* event of an EGamma batch passes the trigger mask of the channel "emu"
\* only if it fired a path of the single-electron group (se) and fired no
\* path of the cross-flavor group (emu).
C18_EGammaEmuVetoesCrossFlavor ==
    (HltReturned /\ cfg.isData = "True" /\ Dataset = "EGamma"
        /\ call.channel = "emu") =>
        \A i \in 1..nevents :
            call.returned[i] => GroupFired(i, "se") /\ ~GroupFired(i, "emu")

\* C19 (as stated): the boolean of a configured group is the OR over its
\* configured paths of "the path fired for the event", the group's mask is
\* all-false if a configured path is absent from the index map or no path
\* resolves, and no exception is raised in either case.
C19_GroupFailsClosedOnAbsentPath ==
    HltCalled =>
        \A grp \in DOMAIN cfg.HLT :
            /\ HasAbsentPath(grp) =>
                  /\ \A i \in 1..nevents : ~call.tot_masks[grp][i]
                  /\ call.channel \in {"ee", "mumu", "emu"} => result = "ok"
            /\ ~HasAbsentPath(grp) =>
                  \A i \in 1..nevents :
                      call.tot_masks[grp][i] <=>
                          \E k \in 1..Len(cfg.HLT[grp].triggers) :
                              ResolvedFired(i, cfg.HLT[grp].triggers[k])

\* C19 (amended): the boolean of a configured group is the OR, over those of
\* its configured paths that are in the index map, of "the index of the path
\* is among the event's fired indices"; a path absent from the map is
\* skipped, so the mask is all-false when no path resolves; in data the mask
\* is all-false as well when the group does not list the batch's dataset;
\* an absent path raises no exception.
C19_GroupMaskIsUnionOfResolvedPaths ==
    HltCalled =>
        \A grp \in DOMAIN cfg.HLT :
            /\ \A i \in 1..nevents :
                  call.tot_masks[grp][i] <=>
                      /\ ~DatasetExcluded(grp)
                      /\ \E k \in 1..Len(cfg.HLT[grp].triggers) :
                            ResolvedFired(i, cfg.HLT[grp].triggers[k])
            /\ (HasAbsentPath(grp) /\ call.channel \in {"ee", "mumu", "emu"})
                  => result = "ok"

\* a group with one absent and one resolved path, fired by the event
C19_Witness ==
    /\ HltCalled
    /\ result = "ok"
    /\ \E grp \in DOMAIN cfg.HLT :
          /\ HasAbsentPath(grp)
          /\ ~DatasetExcluded(grp)
          /\ call.tot_masks[grp][1]

\* C20: the name-to-index map built from the run's trigger-path list maps
\* every name occurring in the list to the index of its first occurrence,
\* for every list, lists with repeated names included.
C20_IndexMapFirstOccurrence ==
    HltCalled =>
        \A k \in 1..Len(mappings.HLTPaths) :
            LET name == mappings.HLTPaths[k]
            IN  /\ name \in DOMAIN call.hlt_index_map
                /\ mappings.HLTPaths[call.hlt_index_map[name] + 1] = name
                /\ \A j \in 1..call.hlt_index_map[name] :
                      mappings.HLTPaths[j] # name

\* the resolution table of the data branch has an entry for the pair
SupportedInData(channel, dataset) ==
    \/ channel = "ee" /\ dataset = "EGamma"
    \/ channel = "emu" /\ dataset \in {"MuonEG", "EGamma", "SingleMuon", "Muon"}
    \/ channel = "mumu" /\ dataset \in {"Muon", "SingleMuon", "DoubleMuon"}

\* C21: for data, a (channel, dataset) pair the resolution table does not
\* support gives an all-false trigger mask, and dilepton_hlt_mask raises no
\* exception for any channel name, dataset string or group configuration.
C21_UnsupportedCombinationIsFalseMask ==
    (HltCalled /\ cfg.isData = "True") =>
        /\ result = "ok"
        /\ ~SupportedInData(call.channel, Dataset) =>
              \A i \in 1..nevents : ~call.returned[i]

\* main has ended, by returning or by raising
MainEnded == phase \in {"done", "failed"}

\* process() made all its engine calls and returned its outputs to main
ProcessReturned == channels # <<>> /\ pc = Len(event_selection)

\* C22: after a process() that finishes without error in the output mode
\* "minitree", main writes every snapshot stored in minitree[channel] to the
\* output file of the channel, for every returned channel, and then records
\* "SELECTION COMPLETED" in the status record.
C22_MinitreeWrittenThenCompleted ==
    (MainEnded /\ ProcessReturned) =>
        /\ \A k \in 1..Len(channels) :
              /\ channels[k] \in DOMAIN files
              /\ \A key \in DOMAIN minitree[channels[k]] :
                    /\ key \in DOMAIN files[channels[k]]
                    /\ files[channels[k]][key] = minitree[channels[k]][key]
        /\ status[Len(status)] = "SELECTION COMPLETED"

\* the status record holds the line
Recorded(line) == \E k \in 1..Len(status) : status[k] = line

\* an exception left loading, processing or saving in this step
Raised == result = "ok" /\ result' # "ok"

\* C23: an exception raised while loading, processing or saving is not
\* caught before main's except clause, which writes "FAILED:" and the message
\* to the status record and raises it again; "SELECTION COMPLETED" is
\* written only when no exception occurred, and a status record never holds
\* both.
C23_FailureRecordedAndReraised ==
    /\ [](~(Recorded("FAILED:") /\ Recorded("SELECTION COMPLETED")))
    /\ [](Recorded("SELECTION COMPLETED") => result = "ok" /\ phase = "done")
    /\ [](phase = "failed" =>
            /\ result # "ok"
            /\ Len(status) >= 2
            /\ status[Len(status) - 1] = "FAILED:"
            /\ status[Len(status)] = MessageOf(result))
    /\ [][/\ Raised => status' = status /\ phase' \in {"raised", "process"}
          /\ result # "ok" =>
                /\ phase' = "failed"
                /\ result' = result
                /\ status' = status \o <<"FAILED:", MessageOf(result)>>]_vars

\* an exception of process() has been recorded and raised again
C23_Witness ==
    /\ phase = "failed"
    /\ result = "UnboundLocalError"
    /\ status = <<"Processing file", "FAILED:", "UnboundLocalError">>

\* the sum of column[i] over the events i of a set
RECURSIVE SetSum(_, _)
SetSum(set, column) ==
    IF set = {} THEN 0
    ELSE LET i == CHOOSE i \in set : TRUE
         IN  column[i] + SetSum(set \ {i}, column)

\* the events passing the AND of the first k labels of a lineage
PassingFirst(labels, k) ==
    {i \in 1..nevents : \A j \in 1..k : selector[labels[j]][i]}

\* the last call was create_cutflow_histograms
CutflowCalled == call.op = "create_cutflow_histograms" /\ result = "ok"

\* C24: create_cutflow_histograms(events, last_step) gives, per channel, the
\* labels "Initial" followed by last_step.mask_labels[channel] and, at
\* position k, the summed weight and the summed squared weight of exactly
\* the events passing the AND of the first k lineage labels (all events for
\* k = 0); with non-negative weights the summed weights do not increase
\* along the list.
C24_CutflowSumsOverLineagePrefixes ==
    CutflowCalled =>
        \A c \in 1..Len(channels) :
            LET labels  == heap[call.last_step].mask_labels[channels[c]]
                cutflow == histograms[channels[c]]["nevents"]
                weights == call.weights
            IN  /\ Len(cutflow) = Len(labels) + 1
                /\ cutflow[1][1] = "Initial"
                /\ \A k \in 0..Len(labels) :
                      /\ k > 0 => cutflow[k + 1][1] = labels[k]
                      /\ cutflow[k + 1][2] =
                            SetSum(PassingFirst(labels, k), weights)
                      /\ cutflow[k + 1][3] =
                            SetSum(PassingFirst(labels, k),
                                   [i \in 1..nevents |-> weights[i] * weights[i]])
                /\ (\A i \in 1..nevents : weights[i] >= 0) =>
                      \A k \in 1..Len(labels) :
                          cutflow[k + 1][2] <= cutflow[k][2]

\* a cutflow over a lineage of two labels that loses weight at each of them
C24_Witness ==
    /\ CutflowCalled
    /\ \E c \in 1..Len(channels) :
          LET cutflow == histograms[channels[c]]["nevents"]
          IN  /\ Len(cutflow) = 3
              /\ cutflow[2][2] > cutflow[3][2]
              /\ cutflow[3][2] > 0

\* the channels of the Selector whose mask is true for event i
ChannelsOf(i) == {chan \in Range(channels) : chanMask[chan][i]}

\* C25: the channels a concrete Selector defines are mutually exclusive: for
\* every pair of lepton and antilepton pdgId values at most one of ee, mumu,
\* emu is true, and at most one of etau, mutau, tautau.
C25_ChannelsMutuallyExclusive ==
    channels # <<>> =>
        \A i \in 1..nevents : Cardinality(ChannelsOf(i)) <= 1

\* the Selector has defined its channels and an event falls in the channel
\* that two pdgId pairs define
C25_Witness ==
    /\ channels # <<>>
    /\ \E i \in 1..nevents :
          /\ events[i].pdg_lep = 11
          /\ events[i].pdg_lbar = -13
          /\ ChannelsOf(i) = {"emu"}

\* C26: an add_selection_step call that fails for an unregistered parent or
\* for a channel-wise mask mapping that lacks a channel is atomic: it leaves
\* the key set of the registry and the step mapping as they were before the
\* call (so that the corrected call with the same step_label succeeds).
C26_FailingAddIsAtomic ==
    [][(AddCalled /\ call'.parent # None
            /\ result' \in {"MissingParentError", "MissingChannelMaskError"})
        => (DOMAIN selector' = DOMAIN selector /\ steps' = steps)]_vars

\* the labels of the steps a Selector has added are pairwise distinct and
\* none is "init": the call about to be made uses a label not used before
FreshLabel ==
    /\ call'.step_label # "init"
    /\ call'.step_label \notin DOMAIN steps

\* C27: after init_selection, an add_selection_step call whose label differs
\* from "init" and from the labels of the steps added before, with an
\* existing parent and a complete mask, does not fail with a duplicate key:
\* distinct (channel, step_label) pairs and distinct shared labels never map
\* to the same registry key, nor to the base key of a channel.
C27_DistinctLabelsNeverCollide ==
    [][(AddCalled /\ FreshLabel /\ "init" \in DOMAIN steps
            /\ call'.parent \in DOMAIN steps
            /\ (call'.channel_wise => MissingChannels(call') = {}))
        => result' # "DuplicateKeyError"]_vars

\* every label of every stored step is registered
RegistryClosed ==
    \A name \in DOMAIN steps :
        \A chan \in DOMAIN Node(name).mask_labels :
            \A k \in 1..Len(Node(name).mask_labels[chan]) :
                RegistryHas(selector, Node(name).mask_labels[chan][k])

\* C28: after every completed engine operation, successful or failed, every
\* label in every stored step's mask_labels is a key registered in the
\* registry (so make_snapshot on a stored step finds every key).
C28_RegistryClosure == RegistryClosed

\* the composite keys of the configured channels other than chan
ForeignKeys(chan) ==
    {CompositeKey(other, step_label) :
        other \in Range(channels) \ {chan}, step_label \in StepLabels}

\* the batch positions of the events stored in a snapshot table
EventsIn(table) ==
    {table["eventNumber"][j] - 100 : j \in 1..Len(table["eventNumber"])}

\* C29: for every stored step and every channel C, mask_labels[C] starts
\* with C and holds no composite key of another channel; hence every event
\* of every snapshot stored under minitree[C] satisfies the base mask of C,
\* and is a survivor whatever masks were supplied for the other channels.
C29_ChannelContainment ==
    /\ \A name \in DOMAIN steps :
          \A chan \in DOMAIN Node(name).mask_labels :
              LET labels == Node(name).mask_labels[chan]
              IN  /\ labels[1] = chan
                  /\ \A k \in 1..Len(labels) : labels[k] \notin ForeignKeys(chan)
    /\ \A chan \in DOMAIN minitree :
          \A key \in DOMAIN minitree[chan] :
              \A i \in EventsIn(minitree[chan][key]) : chanMask[chan][i]

\* a snapshot of a step below a channel-wise step, with two channels, that
\* kept an event in one channel
C29_Witness ==
    /\ Len(channels) = 2
    /\ call.op = "make_snapshot"
    /\ result = "ok"
    /\ call.step_label \in DOMAIN steps
    /\ \E chan \in Range(channels) :
          /\ Len(Node(call.step_label).mask_labels[chan]) = 2
          /\ Node(call.step_label).mask_labels[chan][2]
                = CompositeKey(chan, call.step_label)
          /\ \E key \in DOMAIN minitree[chan] :
                EventsIn(minitree[chan][key]) # {}

\* the events of the batch that survive the stored step in the channel
SurvivorSet(name, chan) ==
    {i \in 1..nevents : Survivors(steps[name], chan)[i]}

\* the events of the snapshots of the channel taken under the step names
SnapshotEvents(chan, names) ==
    UNION {EventsIn(minitree[chan][step_tag \o name]) :
             name \in {n \in names : step_tag \o n \in DOMAIN minitree[chan]}}

\* C30: in the dilepton Selector, for every channel and batch, the survivors
\* of "Zwindow" and of "InvertZwindow" are disjoint and their union is the
\* survivors of their parent "LeptonInvariantMass" (the inverted branch is
\* empty for emu); the snapshots step4..step7 and step4_zWindow..
\* step7_zWindow of one channel never share an event.
C30_ZwindowBranchesPartitionParent ==
    cfg.selector_script = "dilepton" =>
        /\ {"Zwindow", "InvertZwindow"} \subseteq DOMAIN steps =>
              /\ \A chan \in Range(channels) :
                    /\ SurvivorSet("Zwindow", chan)
                          \cap SurvivorSet("InvertZwindow", chan) = {}
                    /\ SurvivorSet("Zwindow", chan)
                          \cup SurvivorSet("InvertZwindow", chan)
                        = SurvivorSet("LeptonInvariantMass", chan)
              /\ SurvivorSet("InvertZwindow", "emu") = {}
        /\ \A chan \in DOMAIN minitree :
              SnapshotEvents(chan, {"step4", "step5", "step6", "step7"})
                \cap SnapshotEvents(chan, {"step4_zWindow", "step5_zWindow",
                                           "step6_zWindow", "step7_zWindow"})
              = {}

\* event_selection is through and an ee event is in the inverted branch
C30_Witness ==
    /\ cfg.selector_script = "dilepton"
    /\ pc = Len(event_selection)
    /\ SurvivorSet("InvertZwindow", "ee") # {}
    /\ SnapshotEvents("ee", {"step7_zWindow"}) # {}
    /\ SnapshotEvents("ee", {"step4"}) = {}

=============================================================================
